---- MODULE Spec2Model ----
(***************************************************************************)
(* Model of the account service of src/entry.py: the account collection,   *)
(* the request handlers (getAccount, createAccount, exists, listAccounts,  *)
(* updateRole, auth) and the two dispatchers.                              *)
(*                                                                         *)
(* The collection is a sequence of documents in insertion order (the       *)
(* order find_one scans it in).  createAccount is two store steps, the     *)
(* username lookup and the insert, and several createAccount requests may  *)
(* be between the two at once; every other handler is one step.            *)
(*                                                                         *)
(* Strings are TLA+ strings.  Usernames are strings of at most one         *)
(* character over the alphabet Letters, so that lower-casing and the regular *)
(* expression built from the username are modelled character by character. *)
(***************************************************************************)
EXTENDS Naturals, Sequences, FiniteSets, Bags, TLC

VARIABLES
    store,       \* accounts_collection: the documents, in insertion order
    pending,     \* bag of createAccount requests between lookup and insert
    before,      \* the collection as the last completed request found it
    last,        \* the last completed request and its response
    registered,  \* history: the (username, password, token) of every 201
    initial      \* history: the collection as the service found it

vars == <<store, pending, before, last, registered, initial>>

(***************************** bounds **************************************)

\* The collection holds at most MaxAccounts documents, a createAccount
\* between its lookup and its insert counted as one.
MaxAccounts == 2

(***************************** values **************************************)

\* Python's None, for a string-valued argument or field.
None == "None"

\* find_one's None: no document matched.
NoDoc == [missing |-> TRUE]

\* A list argument left at None.
NoList == <<>>

Range(seq) == {seq[i] : i \in 1..Len(seq)}

Min(S) == CHOOSE x \in S : \A y \in S : x <= y

\* The empty dict.
EmptyDict == [k \in {} |-> None]

(************************ external collaborators ***************************)

\* str.lower / re.IGNORECASE on one character.
Lower(c) ==
    CASE c = "A" -> "a"
      [] c = "B" -> "b"
      [] c = "M" -> "m"
      [] OTHER -> c

Letters == {"a", "A", "b", "B", "m", "M"}

\* re.compile('^%s$' % username, re.IGNORECASE) matched against a stored
\* username: the username is pasted into the pattern unescaped, so "." is
\* the wildcard and not a literal dot.
regex_match(pattern, s) ==
    IF pattern = "" THEN s = ""
    ELSE IF pattern = "." THEN s # ""
    ELSE Lower(pattern) = Lower(s)

\* utils.validators: pass/fail predicates on length and character set.
is_username_valid(username) == username \in Letters

is_password_valid(password) == password # ""

\* werkzeug.security: a salted one-way hash and its verify operation.
generate_password_hash(password, salt) ==
    [salt |-> salt, digest |-> <<salt, password>>]

check_password_hash(pwhash, password) ==
    pwhash.digest = <<pwhash.salt, password>>

\* werkzeug's gen_salt: a random string, here one no stored hash has yet.
gen_salt(s) == "s" \o ToString(Len(s) + 1)

\* utils.common.random_string(32): a string no account holds yet.
random_string(s) == "T" \o ToString(Len(s) + 1)

\* The ObjectId the driver gives a new document.
NewObjectId(s) == ToString(Len(s) + 1)

\* ObjectId(id) raises InvalidId unless id has the format of an ObjectId.
IsObjectIdFormat(id) == id \in {ToString(k) : k \in 1..(MaxAccounts + 2)}

\* utils.common.filter_dict_fields(dict, exclude, include): the document
\* without the excluded keys and, when include is given, with only the
\* included ones; the store's _id is shown as id.
PublicKey(k) == IF k = "_id" THEN "id" ELSE k

StoredKey(k) == IF k = "id" THEN "_id" ELSE k

filter_dict_fields(d, exclude, include) ==
    LET keys == {PublicKey(k) : k \in DOMAIN d}
        kept == {k \in keys : /\ k \notin Range(exclude)
                              /\ (include = NoList \/ k \in Range(include))}
    IN  [k \in kept |-> d[StoredKey(k)]]

\* utils.common.is_function(func): func is callable.
is_function(attr) == attr # "methods"

(***************************** the store ***********************************)

FirstMatch(s, idx) == IF idx = {} THEN NoDoc ELSE s[Min(idx)]

get_account_by_username(s, username) ==
    FirstMatch(s, {i \in 1..Len(s) : regex_match(username, s[i].username)})

get_account_by_token(s, token) ==
    FirstMatch(s, {i \in 1..Len(s) : s[i].token = token})

get_account_by_id(s, id) ==
    FirstMatch(s, {i \in 1..Len(s) : s[i]["_id"] = id})

insert_one(s, doc) == Append(s, ("_id" :> NewObjectId(s)) @@ doc)

\* Mutant: the filter of the update is lost and every document is written.
update_one_role_All(s, id, new_role) ==
    [i \in 1..Len(s) |-> [s[i] EXCEPT !.role = new_role]]

update_one_role(s, id, new_role) ==
    [i \in 1..Len(s) |->
        IF s[i]["_id"] = id THEN [s[i] EXCEPT !.role = new_role] ELSE s[i]]

(***************************** responses ***********************************)

\* result and error are <<>> for None and <<v>> for a value v.
RESULT(status, result, code, error) ==
    [code |-> code,
     body |-> [status |-> status]
              @@ (IF result # <<>> THEN [result |-> result[1]] ELSE EmptyDict)
              @@ (IF error # <<>> THEN [error |-> error[1]] ELSE EmptyDict)]

RESULT_OK(result) == RESULT("ok", result, 200, <<>>)

RESULT_OK_CREATED(result) == RESULT("ok", result, 201, <<>>)

RESULT_FAIL_ON_CLIENT(error) == RESULT("fail", <<>>, 400, <<error>>)

\* An exception no handler catches: the framework answers 500 and the body
\* is not the service's envelope.
Fault(exception) == [code |-> 500, body |-> [exception |-> exception]]

Out(resp, s) == [resp |-> resp, store |-> s]

(***************************** the accounts ********************************)

\* Mutant: a new account is made a moderator.
DefaultRole_Moderator == "moderator"

DefaultRole == "ghost"

generate_token(s) == random_string(s)

Account(username, password, token) ==
    [token |-> token, tgId |-> None, role |-> DefaultRole,
     studyGroup |-> None, firstName |-> None, lastName |-> None,
     patronymic |-> None, username |-> username, password |-> password]

(***************************** AccountsBasic *******************************)

\* Mutant: the password is left out of the excluded fields.
GetAccountExclude_TokenOnly == <<"token">>

GetAccountExclude == <<"token", "password">>

getAccount(s, token) ==
    LET matching_acc == get_account_by_token(s, token)
    IN  IF matching_acc = NoDoc
        THEN Out(RESULT_FAIL_ON_CLIENT("Unknown token"), s)
        ELSE Out(RESULT_OK(<<filter_dict_fields(matching_acc,
                                                GetAccountExclude, NoList)>>), s)

CreateAccountInclude ==
    <<"id", "username", "role", "firstName", "lastName", "token">>

Pass == [pass |-> TRUE]

UsernameTaken(s, username) == get_account_by_username(s, username) # NoDoc

\* Lines 160-185: the argument checks and the username lookup.  Pass when
\* the request goes on to the insert.
createAccount_check(s, username, password) ==
    IF username = None \/ password = None
    THEN RESULT_FAIL_ON_CLIENT("Missing username or password parameters")
    ELSE IF (~is_username_valid(username)) \/ (~is_password_valid(password))
    THEN RESULT_FAIL_ON_CLIENT(
             "Incorrect username or password formation: illegal length or content")
    ELSE IF UsernameTaken(s, username)
    THEN RESULT_FAIL_ON_CLIENT("Username is already taken")
    ELSE Pass

\* Lines 189-199: hash, construct, insert, answer.
createAccount_insert(s, username, password) ==
    LET hashed_password == generate_password_hash(password, gen_salt(s))
        acc_hash == Account(username, hashed_password, generate_token(s))
        s2 == insert_one(s, acc_hash)
    IN  Out(RESULT_OK_CREATED(<<filter_dict_fields(s2[Len(s2)], NoList,
                                                   CreateAccountInclude)>>), s2)

(************************ AccountsAuthorizedActions ************************)

exists(s, token) ==
    Out(RESULT_OK(<<get_account_by_token(s, token) # NoDoc>>), s)

\* Mutant: the moderator role can be granted.
GrantableRoles_WithModerator == {"student", "ghost", "moderator"}

GrantableRoles == {"student", "ghost"}

UpdateRoleDenied == "Unexpected account role. Needed: moderator"

updateRole(s, token, accountId, newRole) ==
    LET moderator_account == get_account_by_token(s, token)
    IN  IF moderator_account = NoDoc
        THEN Out(RESULT_FAIL_ON_CLIENT("Unknown token"), s)
        ELSE IF moderator_account.role # "moderator"
        THEN Out(RESULT_FAIL_ON_CLIENT(UpdateRoleDenied), s)
        ELSE IF accountId = None \/ newRole = None \/ newRole \notin GrantableRoles
        THEN Out(RESULT_FAIL_ON_CLIENT(
                 "accountID provided is not valid(probably, roles do not match)"), s)
        ELSE IF ~IsObjectIdFormat(accountId)
        THEN Out(Fault("InvalidId"), s)
        ELSE IF get_account_by_id(s, accountId) = NoDoc
        THEN Out(Fault("TypeError"), s)
        ELSE Out(RESULT_OK(<<>>), update_one_role(s, accountId, newRole))

ListedRoles == {"student", "ghost"}

ListAccountsInclude == <<"id", "username", "role", "firstName", "lastName">>

\* Mutant: the role of the caller is not looked at.
ListAccountsAllowed_AnyAccount(account) == account # NoDoc

ListAccountsAllowed(account) == account # NoDoc /\ account.role = "moderator"

HasRole(role, acc) == acc.role = role

\* find({'role': {'$in': [...]}}).sort('role', 1)
find_sorted_by_role(s) ==
    LET found == SelectSeq(s, LAMBDA acc : acc.role \in ListedRoles)
    IN  SelectSeq(found, LAMBDA acc : HasRole("ghost", acc))
        \o SelectSeq(found, LAMBDA acc : HasRole("student", acc))

listAccounts(s, token) ==
    LET account == get_account_by_token(s, token)
        found_accounts == find_sorted_by_role(s)
    IN  IF ~ListAccountsAllowed(account)
        THEN Out(RESULT_FAIL_ON_CLIENT("Unknown token"), s)
        ELSE Out(RESULT_OK(<<[i \in 1..Len(found_accounts) |->
                     filter_dict_fields(found_accounts[i], NoList,
                                        ListAccountsInclude)]>>), s)

\* dir(self) of the resource, as far as the requests of the model name it.
DirAuthorized ==
    {"exists", "updateRole", "listAccounts", "process_request",
     "get", "post", "put", "methods"}

Handlers(method) ==
    CASE method = "get" -> {"exists", "listAccounts"}
      [] method = "put" -> {"updateRole"}
      [] OTHER -> {}

NoHandler(action) ==
    RESULT_FAIL_ON_CLIENT("No action handler provided for action: " \o action)

process_request(s, method, token, action, accountId, newRole) ==
    IF action \in DirAuthorized
    THEN IF action \notin Handlers(method)
         THEN Out(NoHandler(action), s)
         ELSE CASE action = "exists" -> exists(s, token)
                [] action = "listAccounts" -> listAccounts(s, token)
                [] action = "updateRole" ->
                       updateRole(s, token, accountId, newRole)
    ELSE Out(NoHandler(action), s)

(*********************** AccountsUnauthorizedActions ***********************)

AuthInclude == <<"id", "username", "role", "firstName", "lastName", "token">>

AuthUnknownUsername == RESULT_FAIL_ON_CLIENT("Unknown username or password")

\* Mutant: a wrong password gets an answer of its own.
AuthWrongPassword_Distinct == RESULT_FAIL_ON_CLIENT("Wrong password")

AuthWrongPassword == RESULT_FAIL_ON_CLIENT("Unknown username or password")

auth(s, username, password) ==
    IF username = None \/ password = None
    THEN Out(RESULT_FAIL_ON_CLIENT("Missing username or password parameters"), s)
    ELSE LET account == get_account_by_username(s, username)
         IN  IF account = NoDoc
             THEN Out(AuthUnknownUsername, s)
             ELSE IF check_password_hash(account.password, password)
             THEN Out(RESULT_OK(<<filter_dict_fields(account, NoList,
                                                     AuthInclude)>>), s)
             ELSE Out(AuthWrongPassword, s)

DirUnauthorized == {"auth", "post", "methods"}

unauthorized_post(s, action, username, password) ==
    IF action \in DirUnauthorized
    THEN IF is_function(action)
         THEN IF action = "auth"
              THEN auth(s, username, password)
              ELSE Out(Fault("TypeError"), s)   \* self.post() lacks its argument
         ELSE Out(NoHandler(action), s)
    ELSE Out(NoHandler(action), s)

(***************************** requests ************************************)

Request(route, method, token, action, username, password, accountId, newRole) ==
    [route |-> route, method |-> method, token |-> token, action |-> action,
     username |-> username, password |-> password,
     accountId |-> accountId, newRole |-> newRole]

\* Request inputs.  Credentials for auth: every pair of a well-formed
\* username and a well-formed password, and one pair for each way of being
\* missing or malformed; "." is the username that is a regular expression.
\* createAccount is asked for "a" and "A" with the same password, for "A"
\* with another one and for "b", and with the same missing or malformed pairs.
ValidUsernames == {"a", "A", "b"}
ValidPasswords == {"p1", "p2"}
BadCredentials == {<<None, "p1">>, <<"a", None>>, <<".", "p1">>, <<"a", "">>}
AuthInputs == (ValidUsernames \X ValidPasswords) \cup BadCredentials
CreateAccountInputs ==
    {<<"a", "p1">>, <<"A", "p1">>, <<"A", "p2">>, <<"b", "p2">>}
    \cup BadCredentials

TokenInputs == {"T" \o ToString(k) : k \in 0..MaxAccounts}

\* updateRole arguments: every grantable role for every identifier that
\* has the format of an ObjectId (the last one is never given to a
\* document), and one pair for each way of being missing or malformed.
UpdateRoleInputs ==
    ({ToString(k) : k \in 1..(MaxAccounts + 1)} \X {"student", "ghost"})
    \cup {<<"1", "moderator">>, <<"1", None>>, <<"zz", "student">>,
          <<None, "student">>}

\* (method, action) pairs of the token-scoped route: the three handlers
\* under their verb, and pairs the dispatcher turns away.
HandledInputs == {<<"get", "exists">>, <<"get", "listAccounts">>}
UnhandledInputs ==
    {<<"get", "updateRole">>, <<"put", "exists">>, <<"post", "listAccounts">>,
     <<"get", "process_request">>, <<"get", "nope">>}

UnauthorizedActionInputs == {"post", "methods", "nope"}

\* The collection as the service finds it when it starts: empty, or with
\* accounts written by an administrator, who alone can make a moderator.
Seed(k, username, role) ==
    ("_id" :> ToString(k))
    @@ [Account(username, generate_password_hash("p1", "s0"),
                "T" \o ToString(k)) EXCEPT !.role = role]

InitialStores == {<<>>, <<Seed(1, "m", "moderator")>>}

NoRequest == [req |-> Request("none", None, None, None, None, None, None, None),
              resp |-> [code |-> 0, body |-> EmptyDict]]

Init ==
    /\ store \in InitialStores
    /\ pending = EmptyBag
    /\ before = store
    /\ last = NoRequest
    /\ registered = {}
    /\ initial = store

Complete(req, out) ==
    /\ before' = store
    /\ store' = out.store
    /\ last' = [req |-> req, resp |-> out.resp]

\* GET /<token>
GetAccount(token) ==
    /\ Complete(Request("basic", "get", token, None, None, None, None, None),
                getAccount(store, token))
    /\ UNCHANGED <<pending, registered, initial>>

\* POST /: the checks and the lookup of createAccount.
CreateAccountLookup(username, password) ==
    LET r == createAccount_check(store, username, password)
    IN  IF r = Pass
        THEN /\ Len(store) + BagCardinality(pending) < MaxAccounts
             /\ pending' = pending (+) SetToBag({[username |-> username,
                                                  password |-> password]})
             /\ UNCHANGED <<store, before, last, registered, initial>>
        ELSE /\ Complete(Request("basic", "post", None, None, username,
                                 password, None, None), Out(r, store))
             /\ UNCHANGED <<pending, registered, initial>>

\* POST /: the insert of a createAccount that passed its lookup.
CreateAccountInsert(p) ==
    LET out == createAccount_insert(store, p.username, p.password)
    IN  /\ BagIn(p, pending)
        /\ pending' = pending (-) SetToBag({p})
        /\ Complete(Request("basic", "post", None, None, p.username,
                            p.password, None, None), out)
        /\ registered' = registered \cup
               {[username |-> p.username, password |-> p.password,
                 token |-> out.resp.body.result.token]}
        /\ UNCHANGED initial

\* GET, POST, PUT /<token>/<action>
Authorized(method, token, action, accountId, newRole) ==
    /\ Complete(Request("authorized", method, token, action, None, None,
                        accountId, newRole),
                process_request(store, method, token, action, accountId, newRole))
    /\ UNCHANGED <<pending, registered, initial>>

\* POST /<action>
Unauthorized(action, username, password) ==
    /\ Complete(Request("unauthorized", "post", None, action, username,
                        password, None, None),
                unauthorized_post(store, action, username, password))
    /\ UNCHANGED <<pending, registered, initial>>

Next ==
    \/ \E token \in TokenInputs : GetAccount(token)
    \/ \E c \in CreateAccountInputs : CreateAccountLookup(c[1], c[2])
    \/ \E p \in BagToSet(pending) : CreateAccountInsert(p)
    \/ \E token \in TokenInputs :
           \/ \E h \in HandledInputs :
                  Authorized(h[1], token, h[2], None, None)
           \/ \E u \in UpdateRoleInputs :
                  Authorized("put", token, "updateRole", u[1], u[2])
    \/ \E h \in UnhandledInputs : Authorized(h[1], "T1", h[2], None, None)
    \/ \E c \in AuthInputs : Unauthorized("auth", c[1], c[2])
    \/ \E action \in UnauthorizedActionInputs :
           Unauthorized(action, None, None)

Spec == Init /\ [][Next]_vars

(***************************** properties **********************************)

Req == last.req
Resp == last.resp

IsGetAccount == Req.route = "basic" /\ Req.method = "get"
IsCreateAccount == Req.route = "basic" /\ Req.method = "post"
IsAuth == Req.route = "unauthorized" /\ Req.action = "auth"
IsExists ==
    Req.route = "authorized" /\ Req.method = "get" /\ Req.action = "exists"
IsListAccounts ==
    Req.route = "authorized" /\ Req.method = "get" /\ Req.action = "listAccounts"
IsUpdateRole ==
    Req.route = "authorized" /\ Req.method = "put" /\ Req.action = "updateRole"

IsFail400 ==
    /\ Resp.code = 400
    /\ Resp.body.status = "fail"
    /\ "result" \notin DOMAIN Resp.body

FailWith(error) == [code |-> 400, body |-> [status |-> "fail", error |-> error]]

SameUsername(u, v) == Lower(u) = Lower(v)

Holders(s, token) == {i \in 1..Len(s) : s[i].token = token}

ModeratorToken(s, token) ==
    \E i \in Holders(s, token) : s[i].role = "moderator"

Moderators(s) == {s[i]["_id"] : i \in {j \in 1..Len(s) : s[j].role = "moderator"}}

TargetExists(s, id) == \E i \in 1..Len(s) : s[i]["_id"] = id

\* The fields of a document that no operation may change.
Identity(acc) == [acc EXCEPT !.role = "-"]

\* C1: no two distinct accounts of the collection have usernames that are
\* equal under case-insensitive comparison, also with createAccount
\* requests between their lookup and their insert.
C1_UsernamesUnique ==
    \A i, j \in 1..Len(store) :
        i # j => ~SameUsername(store[i].username, store[j].username)

\* C2: an auth with the password and, up to case, the username of a
\* createAccount that was answered 201 with token T is answered ok/200
\* with token T.
C2_AuthAfterRegister ==
    IsAuth =>
        \A r \in registered :
            (SameUsername(r.username, Req.username) /\ r.password = Req.password)
            => /\ Resp.code = 200
               /\ Resp.body.status = "ok"
               /\ Resp.body.result.token = r.token

\* C3: listAccounts and updateRole, called with a token that does not
\* resolve to a moderator, answer fail/400 without a result and leave the
\* collection as it was.
C3_NonModeratorDenied ==
    ((IsListAccounts \/ IsUpdateRole) /\ ~ModeratorToken(before, Req.token))
    => (IsFail400 /\ store = before)

C3_Witness ==
    /\ IsUpdateRole
    /\ \E i \in Holders(before, Req.token) : before[i].role = "ghost"
    /\ TargetExists(before, Req.accountId)
    /\ Req.newRole = "student"
    /\ Resp.code = 400

\* C4: updateRole by a moderator on an existing account is rejected with
\* fail/400 and changes nothing when newRole is not student or ghost;
\* otherwise it answers ok/200, the target's stored role is newRole, and
\* getAccount on the target's token shows that role.  A successful
\* getAccount always shows the stored role of the token's holder.
C4_UpdateRole ==
    /\ (IsUpdateRole /\ ModeratorToken(before, Req.token)
            /\ TargetExists(before, Req.accountId))
       => IF Req.newRole \in {"student", "ghost"}
          THEN /\ Resp = [code |-> 200, body |-> [status |-> "ok"]]
               /\ \A i \in 1..Len(store) :
                      store[i]["_id"] = Req.accountId
                      => /\ store[i].role = Req.newRole
                         /\ getAccount(store, store[i].token).resp.body.result.role
                                = Req.newRole
          ELSE IsFail400 /\ store = before
    /\ (IsGetAccount /\ Resp.code = 200)
       => \A i \in Holders(store, Req.token) :
              Resp.body.result.role = store[i].role

C4_Witness ==
    /\ IsUpdateRole
    /\ ModeratorToken(before, Req.token)
    /\ Req.newRole = "student"
    /\ Resp.code = 200
    /\ \E i \in 1..Len(store) :
           /\ store[i]["_id"] = Req.accountId
           /\ store[i].token # Req.token
           /\ before[i].role = "ghost"
           /\ store[i].role = "student"

\* C5: listAccounts and updateRole answer a caller whose token is valid but
\* not a moderator's exactly as they answer a caller whose token resolves to
\* no account.
C5_DenialsIndistinguishable ==
    ((IsListAccounts \/ IsUpdateRole)
        /\ Holders(before, Req.token) # {}
        /\ ~ModeratorToken(before, Req.token))
    => Resp = process_request(before, Req.method, "T0", Req.action,
                              Req.accountId, Req.newRole).resp

AuthUnknownCase ==
    /\ IsAuth /\ Req.username # None /\ Req.password # None
    /\ get_account_by_username(before, Req.username) = NoDoc

AuthWrongPasswordCase ==
    /\ IsAuth /\ Req.username # None /\ Req.password # None
    /\ \E i \in 1..Len(before) : SameUsername(before[i].username, Req.username)
    /\ ~check_password_hash(
           get_account_by_username(before, Req.username).password, Req.password)

\* C6: auth with the username of an existing account and a password that
\* does not verify, and auth with a username that matches no account, get
\* the same answer, fail/400 'Unknown username or password' without a
\* result, and leave the collection as it was.
C6_AuthDenialsIdentical ==
    (AuthUnknownCase \/ AuthWrongPasswordCase)
    => /\ Resp = FailWith("Unknown username or password")
       /\ store = before
       /\ \A c \in AuthInputs :
              (/\ c[1] # None /\ c[2] # None
               /\ get_account_by_username(before, c[1]) = NoDoc)
              => auth(before, c[1], c[2]).resp = Resp

C6_Witness ==
    /\ AuthWrongPasswordCase
    /\ Resp.code = 400
    /\ \E c \in AuthInputs :
           /\ c[1] # None /\ c[2] # None
           /\ get_account_by_username(before, c[1]) = NoDoc

HasResult == "result" \in DOMAIN Resp.body

ResultIsDocument ==
    HasResult /\ (IsGetAccount \/ IsCreateAccount \/ IsAuth)

ResultIsList == HasResult /\ IsListAccounts

\* C7: no response carries a password field; a successful getAccount carries
\* no token field either, and getAccount on a token no account holds answers
\* fail/400 'Unknown token'.
C7_NoPasswordInResponses ==
    /\ "password" \notin DOMAIN Resp.body
    /\ ResultIsDocument => "password" \notin DOMAIN Resp.body.result
    /\ ResultIsList =>
           \A i \in 1..Len(Resp.body.result) :
               "password" \notin DOMAIN Resp.body.result[i]
    /\ (IsGetAccount /\ HasResult) => "token" \notin DOMAIN Resp.body.result
    /\ (IsGetAccount /\ Holders(before, Req.token) = {})
       => Resp = FailWith("Unknown token")

C7_Witness ==
    /\ IsGetAccount
    /\ Resp.code = 200
    /\ "role" \in DOMAIN Resp.body.result
    /\ \E i \in Holders(before, Req.token) : "password" \in DOMAIN before[i]

Changed == {i \in 1..Len(before) : store[i] # before[i]}

\* C8: a request never removes an account nor changes an account's
\* identifier, username, password hash or token; the collection changes
\* only by the insert of one account by a createAccount answered 201 and by
\* the change of the role of one account by an updateRole answered 200.
\* Every account a createAccount reported is still there, unchanged.
C8_Frame ==
    /\ Len(store) >= Len(before)
    /\ \A i \in 1..Len(before) : Identity(store[i]) = Identity(before[i])
    /\ store # before =>
           \/ /\ IsCreateAccount /\ Resp.code = 201
              /\ Len(store) = Len(before) + 1
              /\ Changed = {}
           \/ /\ IsUpdateRole /\ Resp.code = 200
              /\ Len(store) = Len(before)
              /\ Cardinality(Changed) = 1
    /\ (IsGetAccount \/ IsExists \/ IsListAccounts \/ IsAuth
            \/ Resp.code \notin {200, 201})
       => store = before
    /\ \A r \in registered :
           \E i \in 1..Len(store) :
               /\ store[i].username = r.username
               /\ store[i].token = r.token
               /\ check_password_hash(store[i].password, r.password)
    /\ \A i \in 1..Len(initial) : Identity(store[i]) = Identity(initial[i])

C8_Witness ==
    /\ IsUpdateRole
    /\ Resp.code = 200
    /\ store # before
    /\ Len(store) = MaxAccounts
    /\ registered # {}

\* C9: updateRole by a moderator with a grantable newRole and an accountId
\* that is well formed and resolves to no account answers fail/400 and
\* leaves the collection as it was.
C9_UnknownTargetFails ==
    (IsUpdateRole /\ ModeratorToken(before, Req.token)
        /\ Req.newRole \in {"student", "ghost"}
        /\ IsObjectIdFormat(Req.accountId)
        /\ ~TargetExists(before, Req.accountId))
    => (IsFail400 /\ store = before)

\* C10: no request grants the moderator role: a created account is a ghost,
\* updateRole writes student or ghost, the set of moderators never gains a
\* member, every stored role is one of the three, and from a collection
\* without a moderator none appears and no updateRole or listAccounts
\* succeeds.
C10_NoModeratorGranted ==
    /\ \A i \in 1..Len(store) : store[i].role \in {"ghost", "student", "moderator"}
    /\ Moderators(store) \subseteq Moderators(before)
    /\ Moderators(store) \subseteq Moderators(initial)
    /\ (IsCreateAccount /\ Resp.code = 201) => store[Len(store)].role = "ghost"
    /\ (IsUpdateRole /\ Resp.code = 200) => Req.newRole \in {"student", "ghost"}
    /\ Moderators(initial) = {} =>
           /\ Moderators(store) = {}
           /\ (IsUpdateRole \/ IsListAccounts) => Resp.code # 200

C10_Witness ==
    /\ IsUpdateRole
    /\ Resp.code = 200
    /\ Moderators(before) # {}
    /\ Moderators(store) = {}
    /\ Len(store) > Len(initial)

====
